---------------------------- MODULE Spec2Model ----------------------------
(***************************************************************************)
(* Model of the CGM instability-mask pipeline (src/src/instability.py)     *)
(* and of the range metrics that consume the mask (src/src/metrics.py).    *)
(*                                                                         *)
(* A series is a sequence of readings; a reading is a finite integer       *)
(* (mg/dL) or the missing value NaN.  Python index i is position i+1 of    *)
(* the TLA+ sequence; a Python slice a:b is the positions a+1..b.          *)
(* Variances and percentiles are kept as exact fractions <<num, den>>.     *)
(***************************************************************************)
EXTENDS Integers, Sequences, FiniteSets

VARIABLES glucose, cfg, op, ret, err, k, mask, tir, tbr, tar, b, size

vars == <<glucose, cfg, op, ret, err, k, mask, tir, tbr, tar, b, size>>

(***************************************************************************)
(* Bounds of the model and the data it draws its inputs from.              *)
(***************************************************************************)
MaxLen == 5

MaxPad == 3

\* np.nan: the missing reading.  Glucose readings themselves are >= 0.
NaN == -1

Readings == {60, 100, 110}

Values == Readings \cup {NaN}

\* Python None for an optional argument: the empty tuple; a given value v is <<v>>.
None == <<>>

\* np.nan as the result of a metric
NaNResult == <<>>

(***************************************************************************)
(* Python / numpy primitives                                               *)
(***************************************************************************)
Max(x, y) == IF x >= y THEN x ELSE y

Min(x, y) == IF x <= y THEN x ELSE y

Abs(x) == IF x >= 0 THEN x ELSE -x

\* round(a / b) for a >= 0, b > 0: to the nearest integer, halves to even
RoundDiv(a, c) ==
    LET q == a \div c
        r == a % c
    IN IF 2 * r < c THEN q
       ELSE IF 2 * r > c THEN q + 1
       ELSE IF q % 2 = 0 THEN q ELSE q + 1

\* int(a / b) for a >= 0, b > 0: true division, then truncation toward zero
IntDiv(a, c) == a \div c

isfinite(x) == x # NaN

\* np.all(np.isfinite(w))
all_finite(w) == \A p \in 1..Len(w) : isfinite(w[p])

\* np.any(np.isfinite(w))
any_finite(w) == \E p \in 1..Len(w) : isfinite(w[p])

\* np.zeros(n, dtype=bool)
zeros(n) == [p \in 1..n |-> FALSE]

\* arr[a:c] for 0 <= a <= c <= len(arr)
Slice(arr, a, c) == SubSeq(arr, a + 1, c)

\* out[a:c] = True for 0 <= a, c <= len(out)
SetTrue(out, a, c) == [p \in 1..Len(out) |-> IF a < p /\ p <= c THEN TRUE ELSE out[p]]

\* np.diff(w): w[j+1] - w[j] of an all-finite window
diff(w) == [j \in 1..(Len(w) - 1) |-> w[j + 1] - w[j]]

RECURSIVE SumSeq(_)
SumSeq(s) == IF Len(s) = 0 THEN 0 ELSE s[1] + SumSeq(Tail(s))

\* number of True entries: np.sum of a boolean array
CountTrue(m) == Cardinality({p \in 1..Len(m) : m[p]})

(***************************************************************************)
(* local_variance_mask                                                     *)
(***************************************************************************)
\* k = max(1, int(window_min / interval_min))
local_variance_k(window_min, interval_min) == Max(1, IntDiv(window_min, interval_min))

\* a < c for fractions with positive denominators
FracLess(a, c) == a[1] * c[2] < c[1] * a[2]

FracLeq(a, c) == a[1] * c[2] <= c[1] * a[2]

\* the finite entries of a window, in order
finite_of(w) == SelectSeq(w, isfinite)

\* np.nanvar(w): population variance (ddof = 0) of the finite entries of w
nanvar(w) ==
    LET f == finite_of(w)
        m == Len(f)
        s1 == SumSeq(f)
        s2 == SumSeq([j \in 1..m |-> f[j] * f[j]])
    IN <<m * s2 - s1 * s1, m * m>>

\* var = np.full(n, np.nan); var[i] = np.nanvar(w) where the window has a finite entry
rolling_var(arr, kk) ==
    [p \in 1..Len(arr) |->
        IF p >= kk /\ any_finite(Slice(arr, p - kk, p))
        THEN nanvar(Slice(arr, p - kk, p))
        ELSE NaNResult]

\* var[~np.isnan(var)]
defined_of(var) == SelectSeq(var, LAMBDA v : v # NaNResult)

\* entry j (0-based) of np.sort(vals)
sorted_at(vals, j) ==
    LET p == CHOOSE p \in 1..Len(vals) :
                 /\ Cardinality({q \in 1..Len(vals) : FracLess(vals[q], vals[p])}) <= j
                 /\ j < Cardinality({q \in 1..Len(vals) : FracLeq(vals[q], vals[p])})
    IN vals[p]

\* np.nanpercentile(vals, 95), linear interpolation at virtual index 0.95 * (L - 1);
\* nan for an empty array
nanpercentile95(vals) ==
    LET L == Len(vals)
        lo == (19 * (L - 1)) \div 20
        f == (19 * (L - 1)) % 20
        hi == Min(lo + 1, L - 1)
        vlo == sorted_at(vals, lo)
        vhi == sorted_at(vals, hi)
    IN IF L = 0 THEN NaNResult
       ELSE <<(20 - f) * vlo[1] * vhi[2] + f * vhi[1] * vlo[2], 20 * vlo[2] * vhi[2]>>

local_variance_mask(arr, window_min, interval_min, threshold) ==
    LET n == Len(arr)
        kk == local_variance_k(window_min, interval_min)
        var == rolling_var(arr, kk)
        thr == IF threshold = None THEN nanpercentile95(defined_of(var))
               ELSE <<threshold[1], 1>>
    IN IF n < kk THEN zeros(n)
       ELSE [p \in 1..n |-> var[p] # NaNResult /\ thr # NaNResult /\ FracLess(thr, var[p])]

(***************************************************************************)
(* jump_spike_mask                                                         *)
(***************************************************************************)
\* arr[0] of an empty array: IndexError
jump_spike_raises(arr) == Len(arr) = 0

\* np.abs(np.diff(arr, prepend=arr[0])) > threshold_mgdL; a difference with a
\* missing operand is nan and compares False
jump_spike_mask(arr, threshold_mgdL) ==
    [p \in 1..Len(arr) |->
        LET prev == IF p = 1 THEN arr[1] ELSE arr[p - 1]
        IN isfinite(arr[p]) /\ isfinite(prev) /\ Abs(arr[p] - prev) > threshold_mgdL]

(***************************************************************************)
(* jitter_mask                                                             *)
(***************************************************************************)
\* k = max(3, int(window_min / interval_min))
jitter_k(window_min, interval_min) == Max(3, IntDiv(window_min, interval_min))

\* variant: a zero difference counts as a reversal (<= 0 for < 0)
sign_changes_nonstrict(d) == Cardinality({j \in 2..Len(d) : d[j] * d[j - 1] <= 0})

\* np.sum((d[1:] * d[:-1]) < 0)
sign_changes(d) == Cardinality({j \in 2..Len(d) : d[j] * d[j - 1] < 0})

RECURSIVE jitter_loop(_, _, _, _, _)
jitter_loop(arr, kk, min_sign_changes, i, out) ==
    IF i >= Len(arr) THEN out
    ELSE LET w == Slice(arr, i - kk + 1, i + 1)
         IN IF ~all_finite(w) THEN jitter_loop(arr, kk, min_sign_changes, i + 1, out)
            ELSE IF Len(diff(w)) < 2 THEN jitter_loop(arr, kk, min_sign_changes, i + 1, out)
            ELSE IF sign_changes(diff(w)) >= min_sign_changes
                 THEN jitter_loop(arr, kk, min_sign_changes, i + 1, SetTrue(out, i - kk + 1, i + 1))
                 ELSE jitter_loop(arr, kk, min_sign_changes, i + 1, out)

jitter_mask(arr, window_min, min_sign_changes, interval_min) ==
    LET n == Len(arr)
        kk == jitter_k(window_min, interval_min)
    IN IF n < kk THEN zeros(n)
       ELSE jitter_loop(arr, kk, min_sign_changes, kk - 1, zeros(n))

(***************************************************************************)
(* drift_window_mask                                                       *)
(***************************************************************************)
\* points_per_hr = int(60 / interval_min)
points_per_hr(interval_min) == IntDiv(60, interval_min)

\* k_drift = max(2, int(drift_duration_hr * points_per_hr))
drift_k_drift(drift_duration_hr, interval_min) ==
    Max(2, drift_duration_hr * points_per_hr(interval_min))

\* k_low = max(2, int(low_duration_hr * points_per_hr))
drift_k_low(low_duration_hr, interval_min) ==
    Max(2, low_duration_hr * points_per_hr(interval_min))

\* (d >= 0).all() or (d <= 0).all()
monotonic(d) == (\A j \in 1..Len(d) : d[j] >= 0) \/ (\A j \in 1..Len(d) : d[j] <= 0)

RECURSIVE drift_loop(_, _, _, _)
drift_loop(arr, k_drift, i, out) ==
    IF i >= Len(arr) THEN out
    ELSE LET w == Slice(arr, i - k_drift + 1, i + 1)
         IN IF ~all_finite(w) THEN drift_loop(arr, k_drift, i + 1, out)
            ELSE IF monotonic(diff(w))
                 THEN drift_loop(arr, k_drift, i + 1, SetTrue(out, i - k_drift + 1, i + 1))
                 ELSE drift_loop(arr, k_drift, i + 1, out)

\* below = (arr < low_threshold_mgdL) & np.isfinite(arr)
below_of(arr, low_threshold_mgdL) ==
    [p \in 1..Len(arr) |-> isfinite(arr[p]) /\ arr[p] < low_threshold_mgdL]

\* for i in range(n + 1): the run scan; run_start = -1 stands for None
RECURSIVE low_run_loop(_, _, _, _, _)
low_run_loop(below, k_low, i, run_start, out) ==
    IF i > Len(below) THEN out
    ELSE IF i < Len(below) /\ below[i + 1]
         THEN low_run_loop(below, k_low, i + 1, IF run_start = -1 THEN i ELSE run_start, out)
         ELSE IF run_start # -1
              THEN low_run_loop(below, k_low, i + 1, -1,
                                IF i - run_start > k_low THEN SetTrue(out, run_start, i) ELSE out)
              ELSE low_run_loop(below, k_low, i + 1, -1, out)

\* variant: a low run of exactly k_low is flagged (>= for >)
drift_window_mask_nonstrict(arr, drift_duration_hr, low_threshold_mgdL, low_duration_hr, interval_min) ==
    LET n == Len(arr)
        k_drift == drift_k_drift(drift_duration_hr, interval_min)
        k_low == drift_k_low(low_duration_hr, interval_min)
        out1 == IF n >= k_drift THEN drift_loop(arr, k_drift, k_drift - 1, zeros(n)) ELSE zeros(n)
        below == below_of(arr, low_threshold_mgdL)
    IN IF \E p \in 1..n : below[p] THEN low_run_loop(below, k_low - 1, 0, -1, out1) ELSE out1

drift_window_mask(arr, drift_duration_hr, low_threshold_mgdL, low_duration_hr, interval_min) ==
    LET n == Len(arr)
        k_drift == drift_k_drift(drift_duration_hr, interval_min)
        k_low == drift_k_low(low_duration_hr, interval_min)
        out1 == IF n >= k_drift THEN drift_loop(arr, k_drift, k_drift - 1, zeros(n)) ELSE zeros(n)
        below == below_of(arr, low_threshold_mgdL)
    IN IF \E p \in 1..n : below[p] THEN low_run_loop(below, k_low, 0, -1, out1) ELSE out1

(***************************************************************************)
(* dropout_flatline_mask                                                   *)
(***************************************************************************)
\* k = max(2, int(window_min / interval_min))
flatline_k(window_min, interval_min) == Max(2, IntDiv(window_min, interval_min))

\* variant: only the two ends of the window are compared
max_eq_min_ends_only(w) == w[1] = w[Len(w)]

\* np.nanmax(w) == np.nanmin(w) of an all-finite window
max_eq_min(w) == \A p \in 1..Len(w) : \A q \in 1..Len(w) : w[p] = w[q]

RECURSIVE flatline_loop(_, _, _, _)
flatline_loop(arr, kk, i, out) ==
    IF i >= Len(arr) THEN out
    ELSE LET w == Slice(arr, i - kk + 1, i + 1)
         IN IF all_finite(w) /\ max_eq_min(w)
            THEN flatline_loop(arr, kk, i + 1, SetTrue(out, i - kk + 1, i + 1))
            ELSE flatline_loop(arr, kk, i + 1, out)

\* variant: the dropout sub-flag is left out
dropout_flatline_mask_flatline_only(arr, window_min, interval_min) ==
    LET n == Len(arr)
        kk == flatline_k(window_min, interval_min)
    IN IF n >= kk THEN flatline_loop(arr, kk, kk - 1, zeros(n)) ELSE zeros(n)

dropout_flatline_mask(arr, window_min, interval_min) ==
    LET n == Len(arr)
        kk == flatline_k(window_min, interval_min)
        out == IF n >= kk THEN flatline_loop(arr, kk, kk - 1, zeros(n)) ELSE zeros(n)
    IN [p \in 1..n |-> out[p] \/ ~isfinite(arr[p])]

(***************************************************************************)
(* long_nan_run_mask                                                       *)
(***************************************************************************)
\* k_dropout = max(1, int(dropout_min / interval_min))
long_nan_k_dropout(dropout_min, interval_min) == Max(1, IntDiv(dropout_min, interval_min))

\* k_prior = max(0, int(prior_hr * 60 / interval_min))
long_nan_k_prior(prior_hr, interval_min) == Max(0, IntDiv(prior_hr * 60, interval_min))

\* is_nan = ~np.isfinite(arr)
is_nan_of(arr) == [p \in 1..Len(arr) |-> ~isfinite(arr[p])]

\* for i in range(n + 1): the run scan; run_start = -1 stands for None
RECURSIVE long_nan_loop(_, _, _, _, _, _)
long_nan_loop(is_nan, k_dropout, k_prior, i, run_start, out) ==
    IF i > Len(is_nan) THEN out
    ELSE IF i < Len(is_nan) /\ is_nan[i + 1]
         THEN long_nan_loop(is_nan, k_dropout, k_prior, i + 1,
                            IF run_start = -1 THEN i ELSE run_start, out)
         ELSE IF run_start # -1
              THEN long_nan_loop(is_nan, k_dropout, k_prior, i + 1, -1,
                       IF i - run_start >= k_dropout
                       THEN SetTrue(SetTrue(out, run_start, i),
                                    Max(0, run_start - k_prior), run_start)
                       ELSE out)
              ELSE long_nan_loop(is_nan, k_dropout, k_prior, i + 1, -1, out)

\* variant: the lead-in before a long run is not flagged
long_nan_run_mask_no_lead_in(arr, dropout_min, prior_hr, interval_min) ==
    long_nan_loop(is_nan_of(arr), long_nan_k_dropout(dropout_min, interval_min), 0,
                  0, -1, zeros(Len(arr)))

long_nan_run_mask(arr, dropout_min, prior_hr, interval_min) ==
    long_nan_loop(is_nan_of(arr),
                  long_nan_k_dropout(dropout_min, interval_min),
                  long_nan_k_prior(prior_hr, interval_min),
                  0, -1, zeros(Len(arr)))

(***************************************************************************)
(* instability_mask                                                        *)
(***************************************************************************)
\* np.resize(b, size): copies of b repeated to fill; zeros when b is empty
resize(m, n) ==
    IF Len(m) = 0 THEN zeros(n) ELSE [p \in 1..n |-> m[((p - 1) % Len(m)) + 1]]

\* variant: a short mask is extended with copies of its last element
pad_repeat_last(m, n) ==
    IF Len(m) < n /\ Len(m) > 0
    THEN [p \in 1..n |-> IF p <= Len(m) THEN m[p] ELSE m[Len(m)]]
    ELSE IF Len(m) < n THEN zeros(n) ELSE SubSeq(m, 1, n)

\* def pad(b, size)
pad(m, n) == IF Len(m) < n THEN resize(m, n) ELSE SubSeq(m, 1, n)

\* m2 is the first call that can raise: arr[0] of an empty array
instability_raises(arr) == jump_spike_raises(arr)

\* variant: the long-gap mask is left out of the OR
instability_mask_five(arr, c) ==
    LET n == Len(arr)
        m1 == pad(local_variance_mask(arr, 30, c.interval_min, c.variance_threshold), n)
        m2 == pad(jump_spike_mask(arr, c.jump_threshold_mgdL), n)
        m3 == pad(jitter_mask(arr, c.jitter_window_min, c.min_sign_changes, c.interval_min), n)
        m4 == pad(drift_window_mask(arr, c.drift_duration_hr, c.low_threshold_mgdL,
                                    c.low_duration_hr, c.interval_min), n)
        m5 == pad(dropout_flatline_mask(arr, c.flatline_window_min, c.interval_min), n)
    IN [p \in 1..n |-> m1[p] \/ m2[p] \/ m3[p] \/ m4[p] \/ m5[p]]

instability_mask(arr, c) ==
    LET n == Len(arr)
        m1 == pad(local_variance_mask(arr, 30, c.interval_min, c.variance_threshold), n)
        m2 == pad(jump_spike_mask(arr, c.jump_threshold_mgdL), n)
        m3 == pad(jitter_mask(arr, c.jitter_window_min, c.min_sign_changes, c.interval_min), n)
        m4 == pad(drift_window_mask(arr, c.drift_duration_hr, c.low_threshold_mgdL,
                                    c.low_duration_hr, c.interval_min), n)
        m5 == pad(dropout_flatline_mask(arr, c.flatline_window_min, c.interval_min), n)
        m6 == pad(long_nan_run_mask(arr, c.dropout_min, c.prior_hr, c.interval_min), n)
    IN [p \in 1..n |-> m1[p] \/ m2[p] \/ m3[p] \/ m4[p] \/ m5[p] \/ m6[p]]

(***************************************************************************)
(* metrics: compute_TIR, compute_TBR, compute_TAR                          *)
(***************************************************************************)
\* _masked_series: use = all ones without a mask, ~mask with one
use_of(arr, mk) == [p \in 1..Len(arr) |-> IF mk = None THEN TRUE ELSE ~mk[1][p]]

compute_TIR(arr, mk, low, high) ==
    LET use == use_of(arr, mk)
        valid == [p \in 1..Len(arr) |-> isfinite(arr[p]) /\ use[p]]
        in_range == [p \in 1..Len(arr) |->
                        isfinite(arr[p]) /\ arr[p] >= low /\ arr[p] <= high /\ use[p]]
    IN IF CountTrue(use) = 0 THEN NaNResult
       ELSE IF CountTrue(valid) = 0 THEN NaNResult
       ELSE <<CountTrue(in_range), CountTrue(use)>>

compute_TBR(arr, mk, low) ==
    LET use == use_of(arr, mk)
        below == [p \in 1..Len(arr) |-> isfinite(arr[p]) /\ arr[p] < low /\ use[p]]
    IN IF CountTrue(use) = 0 THEN NaNResult
       ELSE <<CountTrue(below), CountTrue(use)>>

compute_TAR(arr, mk, high) ==
    LET use == use_of(arr, mk)
        above == [p \in 1..Len(arr) |-> isfinite(arr[p]) /\ arr[p] > high /\ use[p]]
    IN IF CountTrue(use) = 0 THEN NaNResult
       ELSE <<CountTrue(above), CountTrue(use)>>

(***************************************************************************)
(* Inputs                                                                  *)
(***************************************************************************)
\* the keyword defaults of instability_mask and of the metrics
Defaults ==
    [interval_min |-> 5, variance_window_min |-> 30, variance_threshold |-> None,
     jump_threshold_mgdL |-> 20, jitter_window_min |-> 30, min_sign_changes |-> 2,
     drift_duration_hr |-> 24, low_threshold_mgdL |-> 70, low_duration_hr |-> 8,
     flatline_window_min |-> 30, dropout_min |-> 30, prior_hr |-> 1,
     low |-> 70, high |-> 180]

\* half-hourly sampling: every window is a whole number of samples
Coarse30 ==
    [Defaults EXCEPT !.interval_min = 30, !.variance_window_min = 60,
                     !.jitter_window_min = 90, !.min_sign_changes = 1,
                     !.drift_duration_hr = 2, !.low_duration_hr = 1,
                     !.flatline_window_min = 60, !.dropout_min = 60, !.prior_hr = 1]

\* 25-minute sampling: no duration is a whole number of samples
Odd25 ==
    [Defaults EXCEPT !.interval_min = 25, !.variance_window_min = 70,
                     !.variance_threshold = <<300>>,
                     !.jitter_window_min = 90, !.min_sign_changes = 1,
                     !.drift_duration_hr = 2, !.low_duration_hr = 1,
                     !.flatline_window_min = 70, !.dropout_min = 40, !.prior_hr = 1,
                     !.high = 105]

\* quarter-hourly sampling: the combinator's 30-minute variance window holds 2 samples
Quarter15 ==
    [Defaults EXCEPT !.interval_min = 15, !.variance_window_min = 45,
                     !.jitter_window_min = 60, !.min_sign_changes = 2,
                     !.drift_duration_hr = 1, !.low_duration_hr = 1,
                     !.flatline_window_min = 45, !.dropout_min = 45, !.prior_hr = 1,
                     !.high = 105]

\* hourly sampling: every window falls back to its floor bound, no lead-in
Hourly60 ==
    [Defaults EXCEPT !.interval_min = 60, !.jump_threshold_mgdL = 45,
                     !.drift_duration_hr = 3, !.low_duration_hr = 2, !.prior_hr = 0]

Configs == {Defaults, Coarse30, Odd25, Quarter15, Hourly60}

SeqsUpTo(S, n) == UNION {[1..l -> S] : l \in 0..n}

Series == SeqsUpTo(Values, MaxLen)

Rep(v, n) == [p \in 1..n |-> v]

\* documented example series: six equal readings, a 10-sample gap after 13
\* readings, a 5-sample gap, a spike, one reading per range
Examples ==
    {Rep(100, 6),
     Rep(100, 13) \o Rep(NaN, 10),
     Rep(100, 3) \o Rep(NaN, 5) \o <<100>>,
     <<100, 100, 130>>, <<50, 100, 200>>}

Masks == SeqsUpTo(BOOLEAN, MaxLen)

(***************************************************************************)
(* The caller: one series and one parameter setting, then calls            *)
(***************************************************************************)
Init ==
    /\ glucose \in Series \cup Examples
    /\ cfg \in Configs
    /\ op = "input"
    /\ ret = <<>>
    /\ err = ""
    /\ k = <<>>
    /\ mask = None
    /\ tir = None
    /\ tbr = None
    /\ tar = None
    /\ b = <<>>
    /\ size = 0

call_local_variance_mask ==
    /\ op = "input"
    /\ op' = "local_variance_mask"
    /\ ret' = local_variance_mask(glucose, cfg.variance_window_min, cfg.interval_min,
                                  cfg.variance_threshold)
    /\ k' = <<local_variance_k(cfg.variance_window_min, cfg.interval_min)>>
    /\ UNCHANGED <<glucose, cfg, err, mask, tir, tbr, tar, b, size>>

call_jump_spike_mask ==
    /\ op = "input"
    /\ op' = "jump_spike_mask"
    /\ IF jump_spike_raises(glucose)
       THEN err' = "IndexError" /\ ret' = <<>>
       ELSE err' = err /\ ret' = jump_spike_mask(glucose, cfg.jump_threshold_mgdL)
    /\ UNCHANGED <<glucose, cfg, k, mask, tir, tbr, tar, b, size>>

call_jitter_mask ==
    /\ op = "input"
    /\ op' = "jitter_mask"
    /\ ret' = jitter_mask(glucose, cfg.jitter_window_min, cfg.min_sign_changes, cfg.interval_min)
    /\ k' = <<jitter_k(cfg.jitter_window_min, cfg.interval_min)>>
    /\ UNCHANGED <<glucose, cfg, err, mask, tir, tbr, tar, b, size>>

call_drift_window_mask ==
    /\ op = "input"
    /\ op' = "drift_window_mask"
    /\ ret' = drift_window_mask(glucose, cfg.drift_duration_hr, cfg.low_threshold_mgdL,
                                cfg.low_duration_hr, cfg.interval_min)
    /\ k' = <<drift_k_drift(cfg.drift_duration_hr, cfg.interval_min),
              drift_k_low(cfg.low_duration_hr, cfg.interval_min)>>
    /\ UNCHANGED <<glucose, cfg, err, mask, tir, tbr, tar, b, size>>

call_dropout_flatline_mask ==
    /\ op = "input"
    /\ op' = "dropout_flatline_mask"
    /\ ret' = dropout_flatline_mask(glucose, cfg.flatline_window_min, cfg.interval_min)
    /\ k' = <<flatline_k(cfg.flatline_window_min, cfg.interval_min)>>
    /\ UNCHANGED <<glucose, cfg, err, mask, tir, tbr, tar, b, size>>

call_long_nan_run_mask ==
    /\ op = "input"
    /\ op' = "long_nan_run_mask"
    /\ ret' = long_nan_run_mask(glucose, cfg.dropout_min, cfg.prior_hr, cfg.interval_min)
    /\ k' = <<long_nan_k_dropout(cfg.dropout_min, cfg.interval_min),
              long_nan_k_prior(cfg.prior_hr, cfg.interval_min)>>
    /\ UNCHANGED <<glucose, cfg, err, mask, tir, tbr, tar, b, size>>

call_instability_mask ==
    /\ op = "input"
    /\ op' = "instability_mask"
    /\ IF instability_raises(glucose)
       THEN err' = "IndexError" /\ ret' = <<>> /\ mask' = mask
       ELSE /\ err' = err
            /\ ret' = instability_mask(glucose, cfg)
            /\ mask' = <<instability_mask(glucose, cfg)>>
    /\ UNCHANGED <<glucose, cfg, k, tir, tbr, tar, b, size>>

\* the metrics take the mask the caller holds: none, or the one instability_mask returned
metrics_callable == op \in {"input", "instability_mask", "metrics"} /\ err = ""

call_compute_TIR ==
    /\ metrics_callable
    /\ tir = None
    /\ op' = "metrics"
    /\ tir' = <<compute_TIR(glucose, mask, cfg.low, cfg.high)>>
    /\ UNCHANGED <<glucose, cfg, ret, err, k, mask, tbr, tar, b, size>>

call_compute_TBR ==
    /\ metrics_callable
    /\ tbr = None
    /\ op' = "metrics"
    /\ tbr' = <<compute_TBR(glucose, mask, cfg.low)>>
    /\ UNCHANGED <<glucose, cfg, ret, err, k, mask, tir, tar, b, size>>

call_compute_TAR ==
    /\ metrics_callable
    /\ tar = None
    /\ op' = "metrics"
    /\ tar' = <<compute_TAR(glucose, mask, cfg.high)>>
    /\ UNCHANGED <<glucose, cfg, ret, err, k, mask, tir, tbr, b, size>>

Next ==
    \/ call_local_variance_mask
    \/ call_jump_spike_mask
    \/ call_jitter_mask
    \/ call_drift_window_mask
    \/ call_dropout_flatline_mask
    \/ call_long_nan_run_mask
    \/ call_instability_mask
    \/ call_compute_TIR
    \/ call_compute_TBR
    \/ call_compute_TAR

Spec == Init /\ [][Next]_vars

(***************************************************************************)
(* The alignment step on its own: pad(b, size) for any mask and any size   *)
(***************************************************************************)
InitPad ==
    /\ b \in Masks
    /\ size \in 0..(MaxLen + MaxPad)
    /\ op = "pad_input"
    /\ ret = <<>>
    /\ glucose = <<>>
    /\ cfg = Defaults
    /\ err = ""
    /\ k = <<>>
    /\ mask = None
    /\ tir = None
    /\ tbr = None
    /\ tar = None

call_pad ==
    /\ op = "pad_input"
    /\ op' = "pad"
    /\ ret' = pad(b, size)
    /\ UNCHANGED <<glucose, cfg, err, k, mask, tir, tbr, tar, b, size>>

NextPad == call_pad

SpecPad == InitPad /\ [][NextPad]_vars

(***************************************************************************)
(* Properties.  Each is stated from the series and the parameters alone,   *)
(* independently of the loops above.                                       *)
(***************************************************************************)
N == Len(glucose)

Missing(p) == glucose[p] = NaN

Below(p) == glucose[p] # NaN /\ glucose[p] < cfg.low_threshold_mgdL

\* a..c is a maximal run of positions satisfying P
MaximalRun(P(_), a, c) ==
    /\ 1 <= a /\ a <= c /\ c <= N
    /\ \A j \in a..c : P(j)
    /\ (a = 1 \/ ~P(a - 1))
    /\ (c = N \/ ~P(c + 1))

\* the kk positions s..s+kk-1 lie in the series and hold no missing value
FiniteWindow(s, kk) ==
    /\ 1 <= s /\ s + kk - 1 <= N
    /\ \A j \in s..(s + kk - 1) : ~Missing(j)

\* floor(a / c) for a >= 0, c > 0
FloorQ(a, c) == CHOOSE q \in 0..a : q * c <= a /\ a < (q + 1) * c

AnyDetectorFlags(p) ==
    \/ local_variance_mask(glucose, 30, cfg.interval_min, cfg.variance_threshold)[p]
    \/ jump_spike_mask(glucose, cfg.jump_threshold_mgdL)[p]
    \/ jitter_mask(glucose, cfg.jitter_window_min, cfg.min_sign_changes, cfg.interval_min)[p]
    \/ drift_window_mask(glucose, cfg.drift_duration_hr, cfg.low_threshold_mgdL,
                         cfg.low_duration_hr, cfg.interval_min)[p]
    \/ dropout_flatline_mask(glucose, cfg.flatline_window_min, cfg.interval_min)[p]
    \/ long_nan_run_mask(glucose, cfg.dropout_min, cfg.prior_hr, cfg.interval_min)[p]

\* C1: with default parameters instability_mask returns, for every series of
\* length n >= 0 (the empty series included), a mask of length n.
C1_MaskLengthForAllSeries ==
    (op = "instability_mask" /\ cfg = Defaults) => (err = "" /\ Len(ret) = N)

\* C2: for a non-empty series, instability_mask flags position p if and only if
\* at least one of the six detectors, called on the same series with the same
\* parameters, flags p.
C2_MaskIsOrOfDetectors ==
    (op = "instability_mask" /\ N > 0) =>
        /\ err = ""
        /\ Len(ret) = N
        /\ \A p \in 1..N : ret[p] <=> AnyDetectorFlags(p)

\* a position that only the long-gap detector flags is flagged in the combined
\* mask, next to a position no detector flags
C2_Witness ==
    /\ op = "instability_mask"
    /\ err = ""
    /\ \E p \in 1..N :
          /\ ret[p]
          /\ long_nan_run_mask(glucose, cfg.dropout_min, cfg.prior_hr, cfg.interval_min)[p]
          /\ ~dropout_flatline_mask(glucose, cfg.flatline_window_min, cfg.interval_min)[p]
          /\ ~jump_spike_mask(glucose, cfg.jump_threshold_mgdL)[p]
    /\ \E q \in 1..N : ~ret[q]

C4_ShortRunsNeverFlagged ==
    op = "long_nan_run_mask" =>
        \A a \in 1..N : \A c \in a..N :
            (MaximalRun(Missing, a, c) /\ c - a + 1 < k[1]) =>
                \A p \in a..c : ~ret[p]

\* C5: drift_window_mask flags p if and only if p lies in a window of k_drift
\* all-finite values whose first differences are all >= 0 or all <= 0, or in a
\* maximal run of finite values below low_threshold of length > k_low (strict);
\* k_low + 1 low values are all flagged, k_low low values (fewer than k_drift,
\* as at the defaults) are not flagged at all.
C5_DriftFlags ==
    op = "drift_window_mask" =>
        /\ Len(ret) = N
        /\ \A p \in 1..N :
              ret[p] <=>
                 \/ \E s \in (p - k[1] + 1)..p :
                       /\ FiniteWindow(s, k[1])
                       /\ \/ \A j \in s..(s + k[1] - 2) : glucose[j + 1] >= glucose[j]
                          \/ \A j \in s..(s + k[1] - 2) : glucose[j + 1] <= glucose[j]
                 \/ \E a \in 1..p : \E c \in p..N :
                       MaximalRun(Below, a, c) /\ c - a + 1 > k[2]
        /\ ((\A p \in 1..N : Below(p)) /\ N = k[2] + 1) => \A p \in 1..N : ret[p]
        /\ ((\A p \in 1..N : Below(p)) /\ N = k[2] /\ N < k[1]) => \A p \in 1..N : ~ret[p]

\* k_low + 1 low readings, too few for a drift window, all flagged
C5_Witness ==
    /\ op = "drift_window_mask"
    /\ N = k[2] + 1
    /\ N < k[1]
    /\ \A p \in 1..N : Below(p) /\ ret[p]

C7_FlatlineDropoutFlags ==
    op = "dropout_flatline_mask" =>
        /\ Len(ret) = N
        /\ \A p \in 1..N :
              ret[p] <=>
                 \/ Missing(p)
                 \/ \E s \in (p - k[1] + 1)..p :
                       /\ FiniteWindow(s, k[1])
                       /\ \A j \in s..(s + k[1] - 1) : glucose[j] = glucose[s]

\* the documented example: six readings of 100, window 30 min at 5 min
C7_Witness ==
    /\ op = "dropout_flatline_mask"
    /\ cfg = Defaults
    /\ k = <<6>>
    /\ glucose = Rep(100, 6)
    /\ ret = Rep(TRUE, 6)

\* number of strict sign reversals between consecutive first differences of
\* the window s..s+kk-1
Reversals(s, kk) ==
    Cardinality({j \in (s + 1)..(s + kk - 2) :
        (glucose[j + 1] - glucose[j]) * (glucose[j] - glucose[j - 1]) < 0})

\* C8: jitter_mask flags p if and only if p lies in a window of k consecutive
\* values with no missing value and at least min_sign_changes strict sign
\* reversals; a series shorter than k is not flagged anywhere.
C8_JitterFlags ==
    op = "jitter_mask" =>
        /\ Len(ret) = N
        /\ \A p \in 1..N :
              ret[p] <=>
                 \E s \in (p - k[1] + 1)..p :
                    /\ FiniteWindow(s, k[1])
                    /\ Reversals(s, k[1]) >= cfg.min_sign_changes
        /\ N < k[1] => \A p \in 1..N : ~ret[p]

\* an oscillating window is flagged; a window with a flat step in it, one
\* reversal short, is not
C8_Witness ==
    /\ op = "jitter_mask"
    /\ cfg.min_sign_changes = 2
    /\ k = <<4>>
    /\ N = 5
    /\ ret = <<TRUE, TRUE, TRUE, TRUE, FALSE>>
    /\ glucose[5] = glucose[4]

=============================================================================
